---- MODULE Spec2Model ----
(***************************************************************************)
(* A model of the water-quality dashboard's data generator                 *)
(* (data_generator.py) and of its quality scorer (utils/helpers.py).       *)
(*                                                                         *)
(* Numbers are fixed point: every physical quantity (pH, NTU, mg/L, ...)   *)
(* is an integer count of thousandths.  Time is an integer count of        *)
(* minutes since 1 January 00:00 of a 365-day year.                        *)
(*                                                                         *)
(* numpy's process-wide random stream is the variable rng: the seed last   *)
(* given to np.random.seed and the number of samples taken since.  A       *)
(* sample is a fixed function of (seed, position), as with any PRNG.       *)
(*                                                                         *)
(* Specifications:                                                         *)
(*   Spec          instances built, generate calls made, time passing      *)
(*   SpecGenerate  one generate call on any arguments, time and stream     *)
(*   SpecReading   one reading from samples of any size                    *)
(*   SpecAnomaly   add_anomaly calls on a generated dataset                *)
(*   SpecClassify  one get_quality_status call                             *)
(*   SpecIndex     one calculate_quality_index call                        *)
(*   SpecColor     get_quality_color calls                                 *)
(*   SpecDraws     generate calls, one np.random call at a time            *)
(*   SpecStatus    one reading, over the percentiles of its status choice  *)
(***************************************************************************)
EXTENDS Integers, Sequences, FiniteSets, TLC

VARIABLES now, rng, gens, calls, heap, last, probe

vars == <<now, rng, gens, calls, heap, last, probe>>

(***************************************************************************)
(* Bounds of the model.                                                    *)
(***************************************************************************)
MaxGens == 2
MaxCalls == 2
MaxDays == 1
MaxStations == 2
MaxTicks == 1

Seeds == {42, 7}

(***************************************************************************)
(* Units.                                                                  *)
(***************************************************************************)
MinutesPerHour == 60
HoursPerDay == 24
DaysPerYear == 365
MinutesPerDay == HoursPerDay * MinutesPerHour

(***************************************************************************)
(* WaterQualityDataGenerator.DEFAULT_STATIONS and STATUS_PROBABILITIES.    *)
(***************************************************************************)
DEFAULT_STATIONS ==
  << [name |-> "Estação A", location |-> "Rio Principal", base_ph |-> 7000, base_temp |-> 22000],
     [name |-> "Estação B", location |-> "Afluente Norte", base_ph |-> 6800, base_temp |-> 20000],
     [name |-> "Estação C", location |-> "Afluente Sul", base_ph |-> 7200, base_temp |-> 24000],
     [name |-> "Estação D", location |-> "Reservatório", base_ph |-> 7100, base_temp |-> 23000],
     [name |-> "Estação E", location |-> "Estação de Tratamento", base_ph |-> 7000, base_temp |-> 21000] >>

\* [0.85, 0.12, 0.03] in percent: Normal, Alerta, Crítico.
STATUS_PROBABILITIES == <<85, 12, 3>>

StatusLabels == <<"Normal", "Alerta", "Crítico">>

NumericParameters ==
  {"ph", "turbidity", "dissolved_oxygen", "temperature", "conductivity",
   "total_dissolved_solids", "nitrates"}

\* The keys of a reading dict, which become the DataFrame's columns.
ReadingColumns == {"timestamp", "station", "location", "status"} \cup NumericParameters

(***************************************************************************)
(* The random stream.  RawDraw is the percentile (0..99) of the sample     *)
(* taken at position pos of the stream seeded with seed; the distribution  *)
(* functions turn a percentile into a sample.                              *)
(***************************************************************************)
RawDraw(seed, pos) ==
  ((seed * 7919 + pos * 104729 + (seed * pos) * 31 + (pos * pos) * 17) % 1009) % 100

\* Standard normal quantiles (thousandths) at the midpoints of 20 equal bins.
NormalQuantiles ==
  << -1960, -1440, -1150, -935, -755, -598, -454, -319, -189, -63,
     63, 189, 319, 454, 598, 755, 935, 1150, 1440, 1960 >>

\* Unit exponential quantiles (thousandths) at the same midpoints.
ExponentialQuantiles ==
  << 25, 78, 134, 192, 255, 322, 393, 470, 553, 644,
     744, 856, 981, 1124, 1291, 1492, 1743, 2079, 2590, 3689 >>

StandardNormal(u) == NormalQuantiles[(u \div 5) + 1]
StandardExponential(u) == ExponentialQuantiles[(u \div 5) + 1]

\* np.random.normal(loc, scale) given the standard normal sample z.
normal(loc, scale, z) == loc + (scale * z) \div 1000

\* np.random.exponential(scale) given the unit exponential sample e.
exponential(scale, e) == (scale * e) \div 1000

\* np.random.choice(labels, p=probs) given the percentile u.
choice(labels, probs, u) ==
  IF u < probs[1] THEN labels[1]
  ELSE IF u < probs[1] + probs[2] THEN labels[2]
  ELSE labels[3]

(***************************************************************************)
(* Python's max(a, b) and np.clip.                                         *)
(***************************************************************************)
max(a, b) == IF b > a THEN b ELSE a

clip(x, lo, hi) == IF x < lo THEN lo ELSE IF x > hi THEN hi ELSE x

(***************************************************************************)
(* np.sin(2 * np.pi * p / q) in thousandths, 0 <= p <= q, by Bhaskara's    *)
(* rational approximation (exact at the quarter turns).                    *)
(***************************************************************************)
HalfTurnSin(a, b) == (16000 * a * (b - a)) \div (5 * b * b - 4 * a * (b - a))

sin2pi(p, q) ==
  IF 2 * p <= q THEN HalfTurnSin(2 * p, q) ELSE 0 - HalfTurnSin(2 * p - q, q)

\* date.hour and date.timetuple().tm_yday of a timestamp.
hour(t) == (t \div MinutesPerHour) % HoursPerDay
tm_yday(t) == ((t \div MinutesPerDay) % DaysPerYear) + 1

(***************************************************************************)
(* The parameter formulas, each given the sample its np.random call drew.  *)
(***************************************************************************)
_calculate_ph(base, hour_factor, noise) ==
  clip(base + hour_factor \div 2 + noise, 4000, 10000)

_calculate_turbidity(hour_factor, e) ==
  max(0, 2000 + 3 * exponential(500, e) + hour_factor \div 2)

_calculate_dissolved_oxygen(hour_factor, z) ==
  max(0, 8000 - hour_factor \div 2 + normal(0, 500, z))

_calculate_temperature(base, hour_factor, day_factor, z) ==
  base + 3 * hour_factor + 5 * day_factor + normal(0, 500, z)

_calculate_conductivity(hour_factor, z) ==
  max(0, 200000 + 50 * normal(0, 1000, z) + 20 * hour_factor)

_calculate_tds(z) == max(0, 150000 + 30 * normal(0, 1000, z))

\* _calculate_nitrates without its max(0, .).
NitratesUnfloored(z) == 2000 + 3 * normal(0, 1000, z)

_calculate_nitrates(z) == max(0, 2000 + 3 * normal(0, 1000, z))

_determine_status(u) == choice(StatusLabels, STATUS_PROBABILITIES, u)

(***************************************************************************)
(* One reading (lines 98-120), given the eight samples its tick draws, in  *)
(* the order the dict literal evaluates them: s[1] the standard normal of  *)
(* daily_noise, s[2] the unit exponential of turbidity, s[3]..s[7] the     *)
(* standard normals of dissolved oxygen, temperature, conductivity, TDS    *)
(* and nitrates, s[8] the percentile of the status choice.                 *)
(***************************************************************************)
\* A reading whose status follows its pH: Alerta outside 6.5..8.5.
ReadingWithDerivedStatus(date, station_name, location, base_ph, base_temp, s) ==
  LET hour_factor == sin2pi(hour(date), HoursPerDay)
      day_factor == sin2pi(tm_yday(date), DaysPerYear)
      daily_noise == normal(0, 200, s[1])
      ph == _calculate_ph(base_ph, hour_factor, daily_noise)
  IN [timestamp |-> date,
      station |-> station_name,
      location |-> location,
      ph |-> ph,
      turbidity |-> _calculate_turbidity(hour_factor, s[2]),
      dissolved_oxygen |-> _calculate_dissolved_oxygen(hour_factor, s[3]),
      temperature |-> _calculate_temperature(base_temp, hour_factor, day_factor, s[4]),
      conductivity |-> _calculate_conductivity(hour_factor, s[5]),
      total_dissolved_solids |-> _calculate_tds(s[6]),
      nitrates |-> _calculate_nitrates(s[7]),
      status |-> IF ph < 6500 \/ ph > 8500 THEN "Alerta" ELSE _determine_status(s[8])]

Reading(date, station_name, location, base_ph, base_temp, s) ==
  LET hour_factor == sin2pi(hour(date), HoursPerDay)
      day_factor == sin2pi(tm_yday(date), DaysPerYear)
      daily_noise == normal(0, 200, s[1])
  IN [timestamp |-> date,
      station |-> station_name,
      location |-> location,
      ph |-> _calculate_ph(base_ph, hour_factor, daily_noise),
      turbidity |-> _calculate_turbidity(hour_factor, s[2]),
      dissolved_oxygen |-> _calculate_dissolved_oxygen(hour_factor, s[3]),
      temperature |-> _calculate_temperature(base_temp, hour_factor, day_factor, s[4]),
      conductivity |-> _calculate_conductivity(hour_factor, s[5]),
      total_dissolved_solids |-> _calculate_tds(s[6]),
      nitrates |-> _calculate_nitrates(s[7]),
      status |-> _determine_status(s[8])]

\* The eight samples a tick takes from the stream r, and the stream after a
\* number of samples.
Advance(r, n) == [r EXCEPT !.pos = @ + n]

TickSamples(r) ==
  << StandardNormal(RawDraw(r.seed, r.pos)),
     StandardExponential(RawDraw(r.seed, r.pos + 1)),
     StandardNormal(RawDraw(r.seed, r.pos + 2)),
     StandardNormal(RawDraw(r.seed, r.pos + 3)),
     StandardNormal(RawDraw(r.seed, r.pos + 4)),
     StandardNormal(RawDraw(r.seed, r.pos + 5)),
     StandardNormal(RawDraw(r.seed, r.pos + 6)),
     RawDraw(r.seed, r.pos + 7) >>

\* The loop over dates of _generate_station_data: the readings and the
\* stream it leaves.  Every iteration takes eight samples, so the i-th starts
\* 8 (i - 1) samples after the loop's start.
StationReadings(station_name, location, base_ph, base_temp, dates, r) ==
  [readings |-> [i \in 1..Len(dates) |->
                   Reading(dates[i], station_name, location, base_ph, base_temp,
                           TickSamples(Advance(r, 8 * (i - 1))))],
   rng |-> Advance(r, 8 * Len(dates))]

\* _generate_station_data with the readings returned in descending date
\* order.
ReversedStationData(station_config, dates, r) ==
  LET base_ph == station_config.base_ph
                   + normal(0, 300, StandardNormal(RawDraw(r.seed, r.pos)))
      base_temp == station_config.base_temp
                     + normal(0, 2000, StandardNormal(RawDraw(r.seed, r.pos + 1)))
      got == StationReadings(station_config.name, station_config.location,
                             base_ph, base_temp, dates, Advance(r, 2))
  IN [readings |-> [i \in 1..Len(got.readings) |->
                      got.readings[Len(got.readings) + 1 - i]],
      rng |-> got.rng]

_generate_station_data(station_config, dates, r) ==
  LET base_ph == station_config.base_ph
                   + normal(0, 300, StandardNormal(RawDraw(r.seed, r.pos)))
      base_temp == station_config.base_temp
                     + normal(0, 2000, StandardNormal(RawDraw(r.seed, r.pos + 1)))
  IN StationReadings(station_config.name, station_config.location,
                     base_ph, base_temp, dates, Advance(r, 2))

(***************************************************************************)
(* pd.date_range(start, end, freq): start, start + freq, ... up to end,    *)
(* end included when it is a whole number of steps from start.             *)
(***************************************************************************)
FreqMinutes(frequency) == IF frequency = "H" THEN MinutesPerHour ELSE MinutesPerDay

\* date_range with end excluded.
HalfOpenDateRange(start, end, frequency) ==
  IF start >= end THEN <<>>
  ELSE [i \in 1..(((end - start - 1) \div FreqMinutes(frequency)) + 1) |->
          start + (i - 1) * FreqMinutes(frequency)]

date_range(start, end, frequency) ==
  IF start > end THEN <<>>
  ELSE [i \in 1..(((end - start) \div FreqMinutes(frequency)) + 1) |->
          start + (i - 1) * FreqMinutes(frequency)]

\* pd.DataFrame(data) of a list of dicts: no rows, no columns.
DataFrame(data) ==
  [columns |-> IF data = <<>> THEN {} ELSE ReadingColumns, rows |-> data]

\* The loop over stations of generate.
RECURSIVE StationsLoop(_, _, _)
StationsLoop(stations, dates, r) ==
  IF stations = <<>> THEN [readings |-> <<>>, rng |-> r]
  ELSE LET station_data == _generate_station_data(Head(stations), dates, r)
           rest == StationsLoop(Tail(stations), dates, station_data.rng)
       IN [readings |-> station_data.readings \o rest.readings, rng |-> rest.rng]

\* generate(days, stations, frequency) called at time t on the stream r:
\* the DataFrame returned and the stream left.  The argument stations is a
\* record: none for Python's None, else its list.
generate(days, stations, frequency, t, r) ==
  LET station_list == IF stations.none THEN DEFAULT_STATIONS ELSE stations.list
      end_date == t
      start_date == end_date - days * MinutesPerDay
      dates == date_range(start_date, end_date, frequency)
      data == StationsLoop(station_list, dates, r)
  IN [df |-> DataFrame(data.readings), rng |-> data.rng]

(***************************************************************************)
(* State.                                                                  *)
(*   now    datetime.now()                                                 *)
(*   rng    np.random's process-wide stream: [seed, pos]                   *)
(*   gens   the WaterQualityDataGenerator instances built so far; used is  *)
(*          a history field, the number of samples the instance's own      *)
(*          generate calls have taken                                      *)
(*   calls  the generate calls made so far, with their arguments, the time *)
(*          of the call, the instance's used count at the call, and the    *)
(*          heap object returned                                           *)
(*   heap   the DataFrame objects, by object id                            *)
(*   last   the last add_anomaly call: its arguments and its outcome       *)
(*   probe  the argument and result of a scorer or formula evaluation      *)
(***************************************************************************)
Now0 == 100 * MinutesPerDay + 13 * MinutesPerHour + MinutesPerHour \div 2

NoAnomaly ==
  [df |-> 0, station |-> "", parameter |-> "", start_time |-> 0,
   duration_hours |-> 0, severity |-> "", result |-> 0, error |-> ""]

NoProbe == [kind |-> "none"]

\* DEFAULT_STATIONS[:n], with Python's meaning of a negative n.
Prefix(n) ==
  SubSeq(DEFAULT_STATIONS, 1,
         IF n >= 0 THEN (IF n > Len(DEFAULT_STATIONS) THEN Len(DEFAULT_STATIONS) ELSE n)
         ELSE max(0, Len(DEFAULT_STATIONS) + n))

List(l) == [none |-> FALSE, list |-> l]
None == [none |-> TRUE, list |-> <<>>]

\* The station lists tried: the prefixes of the defaults (the empty list among
\* them) and one list in another order.
StationArgs ==
  {List(Prefix(n)) : n \in 0..MaxStations}
    \cup {List(<<DEFAULT_STATIONS[2], DEFAULT_STATIONS[1]>>)}

DaysArgs == (0 - 1)..MaxDays

\* The (days, stations, frequency) arguments tried: every day count with the
\* longest list, every list with the longest day count, and the daily
\* frequency with None and with a list.
GenerateArgs ==
  {<<d, List(Prefix(MaxStations)), "H">> : d \in DaysArgs}
    \cup {<<MaxDays, st, "H">> : st \in StationArgs}
    \cup {<<MaxDays, None, "D">>, <<MaxDays, List(Prefix(MaxStations)), "D">>}

\* The (days, stations) arguments of generate_water_quality_data tried.
SimpleArgs ==
  {<<MaxDays, MaxStations>>, <<0 - 1, MaxStations>>, <<MaxDays, 0>>, <<0, 0 - 1>>}

\* The stream before any np.random.seed call (seeded by the OS).
Unseeded == [seed |-> 0, pos |-> 0]

Init ==
  /\ now = Now0
  /\ rng = Unseeded
  /\ gens = <<>>
  /\ calls = <<>>
  /\ heap = <<>>
  /\ last = NoAnomaly
  /\ probe = NoProbe

\* __init__(seed): np.random.seed(seed) reseeds the process-wide stream.
Seeded(r, seed) == [seed |-> seed, pos |-> 0]

\* The stream a generate call of instance g draws from: the process-wide one.
StreamOf(g, r) == r

Construct(seed) ==
  /\ Len(gens) < MaxGens
  /\ gens' = Append(gens, [seed |-> seed, used |-> 0])
  /\ rng' = Seeded(rng, seed)
  /\ UNCHANGED <<now, calls, heap, last, probe>>

\* self.generate(days, stations, frequency) on instance g.
Generate(g, days, stations, frequency) ==
  /\ Len(calls) < MaxCalls
  /\ \E got \in {generate(days, stations, frequency, now, StreamOf(g, rng))} :
        /\ heap' = Append(heap, got.df)
        /\ rng' = got.rng
        /\ gens' = [gens EXCEPT ![g].used = @ + (got.rng.pos - rng.pos)]
        /\ calls' = Append(calls,
                      [gen |-> g, days |-> days, stations |-> stations,
                       frequency |-> frequency, at |-> now, own |-> gens[g].used,
                       out |-> Len(heap) + 1])
  /\ UNCHANGED <<now, last, probe>>

\* generate_water_quality_data(days, stations, seed): a new instance, then
\* its generate over DEFAULT_STATIONS[:stations].
GenerateWaterQualityData(days, stations, seed) ==
  /\ Len(gens) < MaxGens
  /\ Len(calls) < MaxCalls
  /\ LET generator == Len(gens) + 1
         seeded == Seeded(rng, seed)
     IN \E got \in {generate(days, List(Prefix(stations)), "H", now, StreamOf(generator, seeded))} :
        /\ heap' = Append(heap, got.df)
        /\ rng' = got.rng
        /\ gens' = Append(gens, [seed |-> seed, used |-> got.rng.pos])
        /\ calls' = Append(calls,
                      [gen |-> generator, days |-> days, stations |-> List(Prefix(stations)),
                       frequency |-> "H", at |-> now, own |-> 0,
                       out |-> Len(heap) + 1])
  /\ UNCHANGED <<now, last, probe>>

\* Time passes between calls.
Tick ==
  /\ now < Now0 + MaxTicks * (MinutesPerHour \div 2)
  /\ now' = now + MinutesPerHour \div 2
  /\ UNCHANGED <<rng, gens, calls, heap, last, probe>>

Next ==
  \/ \E seed \in Seeds : Construct(seed)
  \/ \E g \in 1..Len(gens), a \in GenerateArgs : Generate(g, a[1], a[2], a[3])
  \/ \E a \in SimpleArgs, seed \in Seeds : GenerateWaterQualityData(a[1], a[2], seed)
  \/ Tick

Spec == Init /\ [][Next]_vars

(***************************************************************************)
(* add_anomaly(df, station, parameter, start_time, duration_hours,         *)
(* severity), df an object id.                                             *)
(***************************************************************************)
\* df_modified = df: no copy, the same object.
AliasedCopy(h, df) == [heap |-> h, ref |-> df]

\* df.copy(): a new object with the contents of df.
copy(h, df) == [heap |-> Append(h, h[df]), ref |-> Len(h) + 1]

\* multipliers.get(severity, 1.0): an unrecognised severity changes nothing.
FlatMultiplier(severity) ==
  IF severity = "low" THEN 13
  ELSE IF severity = "medium" THEN 16
  ELSE IF severity = "high" THEN 20
  ELSE 10

\* multipliers.get(severity, 1.5), in tenths.
multiplier_for(severity) ==
  IF severity = "low" THEN 13
  ELSE IF severity = "medium" THEN 16
  ELSE IF severity = "high" THEN 20
  ELSE 15

\* The boolean mask of lines 189-193 for one row.
mask(row, station, start_time, duration_hours) ==
  /\ row.station = station
  /\ row.timestamp >= start_time
  /\ row.timestamp <= start_time + duration_hours * MinutesPerHour

\* df_modified.loc[mask, parameter] *= multiplier, on the rows.
Scaled(rows, station, parameter, start_time, duration_hours, multiplier) ==
  [i \in 1..Len(rows) |->
     IF mask(rows[i], station, start_time, duration_hours)
     THEN [rows[i] EXCEPT ![parameter] = (@ * multiplier) \div 10]
     ELSE rows[i]]

\* The datasets the caller still holds: those generate returned.  The result
\* of an earlier add_anomaly call is dropped when its variable is rebound.
Held == SubSeq(heap, 1, Len(calls))

AddAnomaly(df, station, parameter, start_time, duration_hours, severity) ==
  \E copied \in {copy(Held, df)} :
    LET df_modified == copied.ref
        frame == copied.heap[df_modified]
    IN IF ~({"station", "timestamp", parameter} \subseteq frame.columns)
       THEN \* df_modified['station'] raises KeyError
            /\ heap' = Held
            /\ last' = [df |-> df, station |-> station, parameter |-> parameter,
                        start_time |-> start_time, duration_hours |-> duration_hours,
                        severity |-> severity, result |-> 0, error |-> "KeyError"]
            /\ UNCHANGED <<now, rng, gens, calls, probe>>
       ELSE /\ heap' = [copied.heap EXCEPT ![df_modified].rows =
                          Scaled(@, station, parameter, start_time, duration_hours,
                                 multiplier_for(severity))]
            /\ last' = [df |-> df, station |-> station, parameter |-> parameter,
                        start_time |-> start_time, duration_hours |-> duration_hours,
                        severity |-> severity, result |-> df_modified, error |-> ""]
            /\ UNCHANGED <<now, rng, gens, calls, probe>>

\* The script of lines 239-259: one instance, one generate call, then
\* add_anomaly calls on the dataset it returned.
AnomalyInputs ==
  {<<MaxDays, List(Prefix(MaxStations)), "H">>, <<MaxDays, List(<<>>), "H">>}

InitAnomaly ==
  \E seed \in {42}, a \in AnomalyInputs :
    \E got \in {generate(a[1], a[2], a[3], Now0, Seeded(Unseeded, seed))} :
      /\ now = Now0
      /\ rng = got.rng
      /\ gens = <<[seed |-> seed, used |-> got.rng.pos]>>
      /\ calls = <<[gen |-> 1, days |-> a[1], stations |-> a[2], frequency |-> a[3],
                    at |-> Now0, own |-> 0, out |-> 1]>>
      /\ heap = <<got.df>>
      /\ last = NoAnomaly
      /\ probe = NoProbe

\* A station of the dataset and one that is not.
AnomalyStations == {"Estação A", "Estação Z"}

\* Start times: a tick six hours before the last (five hours later is a tick
\* too), half an hour before a tick, and an hour after the last tick.
StartTimes ==
  {Now0 - 6 * MinutesPerHour,
   Now0 - 10 * MinutesPerHour - MinutesPerHour \div 2,
   Now0 + MinutesPerHour}

Durations == {0, 5}

Severities == {"low", "medium", "high", "extreme"}

NextAnomaly ==
  \E df \in 1..Len(calls), station \in AnomalyStations, parameter \in NumericParameters,
     start_time \in StartTimes, duration_hours \in Durations, severity \in Severities :
    AddAnomaly(df, station, parameter, start_time, duration_hours, severity)

SpecAnomaly == InitAnomaly /\ [][NextAnomaly]_vars

(***************************************************************************)
(* One generate call on its own: any of the arguments, at one of three     *)
(* times of day, on a stream in one of three positions.                    *)
(***************************************************************************)
AllGenerateArgs ==
  {<<d, st, f>> : d \in DaysArgs, st \in StationArgs \cup {None}, f \in {"H", "D"}}

\* Half past one, two o'clock, and half past midnight of the next day.
CallTimes == {Now0, Now0 + MinutesPerHour \div 2, Now0 + 11 * MinutesPerHour}

\* A fresh stream, and two streams that earlier calls have advanced.
StreamPositions == {0, 10, 202}

InitGenerate ==
  /\ now \in CallTimes
  /\ rng \in {[seed |-> seed, pos |-> pos] : seed \in Seeds, pos \in StreamPositions}
  /\ gens = <<>>
  /\ calls = <<>>
  /\ heap = <<>>
  /\ last = NoAnomaly
  /\ \E a \in AllGenerateArgs :
       probe = [kind |-> "arguments", days |-> a[1], stations |-> a[2], frequency |-> a[3]]

CallGenerate ==
  /\ probe.kind = "arguments"
  /\ \E got \in {generate(probe.days, probe.stations, probe.frequency, now, rng)} :
       /\ probe' = [kind |-> "dataset", days |-> probe.days, stations |-> probe.stations,
                    frequency |-> probe.frequency, df |-> got.df]
       /\ rng' = got.rng
  /\ UNCHANGED <<now, gens, calls, heap, last>>

SpecGenerate == InitGenerate /\ [][CallGenerate]_vars

(***************************************************************************)
(* One reading computed from samples of any size: the formulas of lines    *)
(* 94-95 and 107-119 on a station, a date and the samples drawn.           *)
(***************************************************************************)
ProbeStations ==
  {DEFAULT_STATIONS[1],
   [name |-> "Ácida", location |-> "Mina", base_ph |-> 0 - 3000, base_temp |-> 0 - 40000],
   [name |-> "Alcalina", location |-> "Salina", base_ph |-> 19000, base_temp |-> 60000]}

\* Midnight, 06:30 (hour_factor 1) and 18:30 (hour_factor -1).
ProbeDates == {Now0 - 13 * MinutesPerHour, Now0 - 7 * MinutesPerHour, Now0 + 5 * MinutesPerHour}

ExtremeNormals == {0 - 20000, 0, 20000}
ExtremeExponentials == {0, 500, 30000}

InitReading ==
  /\ now = Now0
  /\ rng = Unseeded
  /\ gens = <<>>
  /\ calls = <<>>
  /\ heap = <<>>
  /\ last = NoAnomaly
  /\ \E station_config \in ProbeStations, date \in ProbeDates,
        zb \in ExtremeNormals, zt \in {0 - 20000, 20000},
        z1 \in ExtremeNormals, e2 \in ExtremeExponentials,
        z3 \in ExtremeNormals, z5 \in ExtremeNormals, z6 \in ExtremeNormals,
        z7 \in ExtremeNormals, u8 \in {0, 90, 99} :
       probe = [kind |-> "samples", station_config |-> station_config, date |-> date,
                base |-> <<zb, zt>>, s |-> <<z1, e2, z3, zt, z5, z6, z7, u8>>]

CalculateReading ==
  /\ probe.kind = "samples"
  /\ probe' = [kind |-> "reading", station_config |-> probe.station_config,
               date |-> probe.date, base |-> probe.base, s |-> probe.s,
               reading |-> Reading(probe.date, probe.station_config.name,
                                   probe.station_config.location,
                                   probe.station_config.base_ph
                                     + normal(0, 300, probe.base[1]),
                                   probe.station_config.base_temp
                                     + normal(0, 2000, probe.base[2]),
                                   probe.s)]
  /\ UNCHANGED <<now, rng, gens, calls, heap, last>>

SpecReading == InitReading /\ [][CalculateReading]_vars

(***************************************************************************)
(* One reading of station A, at midnight or at 06:30, with unperturbed     *)
(* baselines: the samples of pH noise, turbidity and dissolved oxygen from *)
(* calm to extreme, and the percentile of the status choice on both sides  *)
(* of the two boundaries of STATUS_PROBABILITIES.                          *)
(***************************************************************************)
StatusPercentiles == {0, 84, 85, 96, 97, 99}

InitStatus ==
  /\ now = Now0
  /\ rng = Unseeded
  /\ gens = <<>>
  /\ calls = <<>>
  /\ heap = <<>>
  /\ last = NoAnomaly
  /\ \E date \in {Now0 - 13 * MinutesPerHour - MinutesPerHour \div 2, Now0 - 7 * MinutesPerHour},
        z1 \in ExtremeNormals, e2 \in ExtremeExponentials, z3 \in ExtremeNormals,
        u8 \in StatusPercentiles :
       probe = [kind |-> "samples", station_config |-> DEFAULT_STATIONS[1], date |-> date,
                base |-> <<0, 0>>, s |-> <<z1, e2, z3, 0, 0, 0, 0, u8>>]

SpecStatus == InitStatus /\ [][CalculateReading]_vars

(***************************************************************************)
(* Python floats: a finite number (v, in thousandths), NaN, or an infinity *)
(* (v its sign).  le and lt are Python's <= and < on floats: every         *)
(* comparison with NaN is False, and none raises.                          *)
(***************************************************************************)
Float(v) == [cls |-> "finite", v |-> v]
NaN == [cls |-> "nan", v |-> 0]
Infinity == [cls |-> "inf", v |-> 1]
NegInfinity == [cls |-> "inf", v |-> 0 - 1]

le(a, b) ==
  /\ a.cls # "nan"
  /\ b.cls # "nan"
  /\ CASE a.cls = "inf" /\ b.cls = "inf" -> a.v <= b.v
       [] a.cls = "inf" /\ b.cls = "finite" -> a.v < 0
       [] a.cls = "finite" /\ b.cls = "inf" -> b.v > 0
       [] OTHER -> a.v <= b.v

lt(a, b) == le(a, b) /\ ~le(b, a)

(***************************************************************************)
(* get_quality_status(value, param), helpers.py lines 9-29.  The products  *)
(* min_val * 0.8 and max_val * 1.2 are whole thousandths for every limit   *)
(* of the table.                                                           *)
(***************************************************************************)
limits ==
  [ph |-> <<6500, 8500>>,
   turbidity |-> <<0, 5000>>,
   dissolved_oxygen |-> <<6000, 14000>>,
   temperature |-> <<0, 30000>>,
   conductivity |-> <<0, 400000>>,
   nitrates |-> <<0, 10000>>]

\* get_quality_status with strict comparisons at the critical thresholds.
StrictCriticalStatus(value, param) ==
  IF param \notin DOMAIN limits THEN "unknown"
  ELSE LET min_val == limits[param][1]
           max_val == limits[param][2]
       IN IF le(Float(min_val), value) /\ le(value, Float(max_val)) THEN "good"
          ELSE IF \/ lt(value, Float((min_val * 8) \div 10))
                  \/ lt(Float((max_val * 12) \div 10), value) THEN "critical"
          ELSE "warning"

\* get_quality_status with a guard that sends NaN to 'unknown'.
NanUnknownStatus(value, param) ==
  IF param \notin DOMAIN limits \/ value.cls = "nan" THEN "unknown"
  ELSE LET min_val == limits[param][1]
           max_val == limits[param][2]
       IN IF le(Float(min_val), value) /\ le(value, Float(max_val)) THEN "good"
          ELSE IF \/ le(value, Float((min_val * 8) \div 10))
                  \/ le(Float((max_val * 12) \div 10), value) THEN "critical"
          ELSE "warning"

get_quality_status(value, param) ==
  IF param \notin DOMAIN limits THEN "unknown"
  ELSE LET min_val == limits[param][1]
           max_val == limits[param][2]
       IN IF le(Float(min_val), value) /\ le(value, Float(max_val)) THEN "good"
          ELSE IF \/ le(value, Float((min_val * 8) \div 10))
                  \/ le(Float((max_val * 12) \div 10), value) THEN "critical"
          ELSE "warning"

\* The parameters tried: the six of the table and two it does not hold.
ProbeParameters == DOMAIN limits \cup {"total_dissolved_solids", "xyz"}

\* The finite values tried: every threshold of every parameter and its
\* neighbours, the spec's examples, and two values far outside.
FiniteProbeValues ==
  UNION {{limits[p][1] + d, limits[p][2] + d,
          (limits[p][1] * 8) \div 10 + d, (limits[p][2] * 12) \div 10 + d} :
         p \in DOMAIN limits, d \in (0 - 1)..1}
    \cup {7000, 6000, 1000, 0 - 50000, 900000}

\* The values tried: the finite ones, NaN and the two infinities.
ProbeValues == {Float(v) : v \in FiniteProbeValues} \cup {NaN, Infinity, NegInfinity}

InitClassify ==
  /\ now = Now0
  /\ rng = Unseeded
  /\ gens = <<>>
  /\ calls = <<>>
  /\ heap = <<>>
  /\ last = NoAnomaly
  /\ \E value \in ProbeValues, param \in ProbeParameters :
       probe = [kind |-> "value", value |-> value, param |-> param]

Classify ==
  /\ probe.kind = "value"
  /\ probe' = [kind |-> "status", value |-> probe.value, param |-> probe.param,
               status |-> get_quality_status(probe.value, probe.param)]
  /\ UNCHANGED <<now, rng, gens, calls, heap, last>>

SpecClassify == InitClassify /\ [][Classify]_vars

(***************************************************************************)
(* calculate_quality_index(readings), helpers.py lines 41-56.  readings is *)
(* the dict's items in iteration order: a sequence of <<param, value>>     *)
(* with distinct params.  Weights are thousandths and the score is         *)
(* thousandths of an index point; every product weights[param] * 100 and   *)
(* weights[param] * 50 is a whole number of points, so float addition is   *)
(* exact.                                                                  *)
(***************************************************************************)
\* weights with dissolved_oxygen at 0.4: they sum to 1.1.
HeavyWeights ==
  [ph |-> 200, turbidity |-> 200, dissolved_oxygen |-> 400,
   temperature |-> 100, conductivity |-> 200]

weights ==
  [ph |-> 200, turbidity |-> 200, dissolved_oxygen |-> 300,
   temperature |-> 100, conductivity |-> 200]

\* Python's min(a, b).
min(a, b) == IF b < a THEN b ELSE a

\* Lines 51-54 with a warning counted like a good value.
WarningCountsFull(status, weight) ==
  IF status = "good" THEN weight * 100
  ELSE IF status = "warning" THEN weight * 100
  ELSE 0

\* Lines 51-54: what a status adds to the score.
ScoreAdded(status, weight) ==
  IF status = "good" THEN weight * 100
  ELSE IF status = "warning" THEN weight * 50
  ELSE 0

\* The loop of lines 48-54 from the score so far.
RECURSIVE ItemsLoop(_, _)
ItemsLoop(items, score) ==
  IF items = <<>> THEN score
  ELSE LET param == Head(items)[1]
           value == Head(items)[2]
       IN ItemsLoop(Tail(items),
                    IF param \in DOMAIN weights
                    THEN score + ScoreAdded(get_quality_status(value, param), weights[param])
                    ELSE score)

\* The local variable score at line 56.
FinalScore(readings) == ItemsLoop(readings, 0)

calculate_quality_index(readings) == min(100000, max(0, FinalScore(readings)))

\* The mappings tried.  Each key is absent or holds a value of the named
\* kind; the values are the spec's example (good) and values between and
\* beyond the thresholds.
IndexValues ==
  [ph |-> [good |-> Float(7000), warning |-> Float(6000), critical |-> Float(5200), nan |-> NaN],
   turbidity |-> [good |-> Float(2000), warning |-> Float(5500), critical |-> Float(6000), nan |-> NaN],
   dissolved_oxygen |-> [good |-> Float(8000), warning |-> Float(5000), critical |-> Float(4800), nan |-> NaN],
   temperature |-> [good |-> Float(22000), warning |-> Float(33000), critical |-> Infinity, nan |-> NaN],
   conductivity |-> [good |-> Float(200000), warning |-> Float(450000), critical |-> Float(480000), nan |-> NaN],
   nitrates |-> [good |-> Float(5000), critical |-> Float(50000)],
   xyz |-> [good |-> Float(7000)]]

IndexKeys == <<"ph", "turbidity", "dissolved_oxygen", "temperature", "conductivity", "nitrates", "xyz">>

Reverse(seq) == [i \in 1..Len(seq) |-> seq[Len(seq) + 1 - i]]

\* The dict whose keys, in the order keys, hold the values picked (a key
\* picked "absent" is not in the dict).
Dict(keys, picked) ==
  LET present == SelectSeq(keys, LAMBDA k : picked[k] # "absent")
  IN [i \in 1..Len(present) |-> <<present[i], IndexValues[present[i]][picked[present[i]]]>>]

InitIndex ==
  /\ now = Now0
  /\ rng = Unseeded
  /\ gens = <<>>
  /\ calls = <<>>
  /\ heap = <<>>
  /\ last = NoAnomaly
  /\ \E ph \in {"absent", "good", "warning", "critical", "nan"},
        turbidity \in {"absent", "good", "warning", "critical"},
        dissolved_oxygen \in {"absent", "good", "warning", "critical", "nan"},
        temperature \in {"absent", "good", "warning", "critical"},
        conductivity \in {"absent", "good", "warning", "critical"},
        nitrates \in {"absent", "good", "critical"},
        xyz \in {"absent", "good"},
        keys \in {IndexKeys, Reverse(IndexKeys)} :
       probe = [kind |-> "readings",
                readings |-> Dict(keys,
                                  [ph |-> ph, turbidity |-> turbidity,
                                   dissolved_oxygen |-> dissolved_oxygen,
                                   temperature |-> temperature,
                                   conductivity |-> conductivity,
                                   nitrates |-> nitrates, xyz |-> xyz])]

\* One call; score records the local variable before the clamp of line 56.
CalculateQualityIndex ==
  /\ probe.kind = "readings"
  /\ probe' = [kind |-> "index", readings |-> probe.readings,
               score |-> FinalScore(probe.readings),
               result |-> calculate_quality_index(probe.readings)]
  /\ UNCHANGED <<now, rng, gens, calls, heap, last>>

SpecIndex == InitIndex /\ [][CalculateQualityIndex]_vars

(***************************************************************************)
(* get_quality_color(status), helpers.py lines 31-39, called on a status   *)
(* string and on the status get_quality_status returns, once and again     *)
(* after time has passed.                                                  *)
(***************************************************************************)
\* colors without the 'unknown' key: that status falls to the default.
ColorsWithoutUnknown ==
  [good |-> "#00C851", warning |-> "#ffbb33", critical |-> "#ff4444"]

colors ==
  [good |-> "#00C851", warning |-> "#ffbb33", critical |-> "#ff4444",
   unknown |-> "#9e9e9e"]

\* colors.get(status, '#9e9e9e'); defaulted tells whether the default answered.
get_quality_color(status) ==
  IF status \in DOMAIN colors THEN colors[status] ELSE "#9e9e9e"

Defaulted(status) == status \notin DOMAIN colors

\* The status strings tried: the four keys, and strings that are not keys
\* (another case, the generator's labels, the empty string).
ProbeStatuses ==
  {"good", "warning", "critical", "unknown", "Good", "GOOD", "", "ok"}
    \cup {StatusLabels[i] : i \in 1..Len(StatusLabels)}

InitColor ==
  /\ now = Now0
  /\ rng \in {Unseeded, Seeded(Unseeded, 42)}
  /\ gens = <<>>
  /\ calls = <<>>
  /\ heap = <<>>
  /\ last = NoAnomaly
  /\ \/ \E status \in ProbeStatuses : probe = [kind |-> "label", status |-> status]
     \/ \E value \in ProbeValues, param \in ProbeParameters :
          probe = [kind |-> "value", value |-> value, param |-> param]

\* get_quality_color(status).
GetQualityColor ==
  /\ probe.kind = "label"
  /\ probe' = [kind |-> "color", status |-> probe.status,
               color |-> get_quality_color(probe.status),
               defaulted |-> Defaulted(probe.status)]
  /\ UNCHANGED <<now, rng, gens, calls, heap, last>>

\* get_quality_color(get_quality_status(value, param)).
ColorOfValue ==
  /\ probe.kind = "value"
  /\ \E status \in {get_quality_status(probe.value, probe.param)} :
       probe' = [kind |-> "colored", value |-> probe.value, param |-> probe.param,
                 status |-> status, color |-> get_quality_color(status),
                 defaulted |-> Defaulted(status), at |-> now, again |-> <<>>]
  /\ UNCHANGED <<now, rng, gens, calls, heap, last>>

\* The same call once more on the same arguments; again keeps what it gave.
ColorOfValueAgain ==
  /\ probe.kind = "colored"
  /\ probe.again = <<>>
  /\ probe' = [probe EXCEPT
                 !.again = <<[color |-> get_quality_color(get_quality_status(probe.value, probe.param)),
                              at |-> now]>>]
  /\ UNCHANGED <<now, rng, gens, calls, heap, last>>

NextColor == GetQualityColor \/ ColorOfValue \/ ColorOfValueAgain \/ Tick

SpecColor == InitColor /\ [][NextColor]_vars

(***************************************************************************)
(* generate, one np.random call at a time.  probe is the frame of the      *)
(* running call: the locals of generate (station_list, dates, data, the    *)
(* index st of the station being generated) and of _generate_station_data  *)
(* (base_ph, base_temp, readings, the index tick of the date, the samples  *)
(* s of the reading being built), the position pc in the code, and log,    *)
(* the np.random calls made so far: which station and tick (0 before the   *)
(* loop over dates) made the call, at which site, on which stream.         *)
(***************************************************************************)
\* The arguments of the first call tried: two stations daily, the list
\* (B, A) and None with one tick, no tick at all, no station at all, and
\* one station hourly.
DrawArgs ==
  {<<MaxDays, List(Prefix(MaxStations)), "D">>,
   <<0, List(<<DEFAULT_STATIONS[2], DEFAULT_STATIONS[1]>>), "H">>,
   <<0, None, "D">>,
   <<0 - 1, List(Prefix(MaxStations)), "H">>,
   <<MaxDays, List(<<>>), "H">>,
   <<MaxDays, List(Prefix(1)), "H">>}

\* The arguments of a later call tried.
RepeatArgs == {<<0, List(Prefix(MaxStations)), "H">>, <<MaxDays, List(Prefix(1)), "D">>}

InitDraws ==
  /\ now = Now0
  /\ rng = Unseeded
  /\ gens = <<>>
  /\ calls = <<>>
  /\ heap = <<>>
  /\ last = NoAnomaly
  /\ \E a \in DrawArgs :
       probe = [kind |-> "arguments", ncall |-> 0,
                days |-> a[1], stations |-> a[2], frequency |-> a[3]]

\* An instance is built before a call.
ConstructBetweenCalls(seed) ==
  /\ probe.kind = "arguments"
  /\ Construct(seed)

\* generate(days, stations, frequency) with a reseeding of the stream from
\* the instance's seed as its first statement.
BeginGenerateReseeding(g) ==
  /\ probe.kind = "arguments"
  /\ probe' = [kind |-> "running", ncall |-> probe.ncall + 1, g |-> g,
               days |-> probe.days, stations |-> probe.stations,
               frequency |-> probe.frequency, start |-> Seeded(rng, gens[g].seed),
               station_list |-> IF probe.stations.none THEN DEFAULT_STATIONS
                                ELSE probe.stations.list,
               dates |-> date_range(now - probe.days * MinutesPerDay, now, probe.frequency),
               st |-> 1, tick |-> 0, pc |-> "for_station",
               base_ph |-> 0, base_temp |-> 0, s |-> <<>>,
               readings |-> <<>>, data |-> <<>>, log |-> <<>>]
  /\ rng' = Seeded(rng, gens[g].seed)
  /\ UNCHANGED <<now, gens, calls, heap, last>>

\* Lines 61-67: instance g enters generate; the stream is not touched.
BeginGenerate(g) ==
  /\ probe.kind = "arguments"
  /\ probe' = [kind |-> "running", ncall |-> probe.ncall + 1, g |-> g,
               days |-> probe.days, stations |-> probe.stations,
               frequency |-> probe.frequency, start |-> rng,
               station_list |-> IF probe.stations.none THEN DEFAULT_STATIONS
                                ELSE probe.stations.list,
               dates |-> date_range(now - probe.days * MinutesPerDay, now, probe.frequency),
               st |-> 1, tick |-> 0, pc |-> "for_station",
               base_ph |-> 0, base_temp |-> 0, s |-> <<>>,
               readings |-> <<>>, data |-> <<>>, log |-> <<>>]
  /\ UNCHANGED <<now, rng, gens, calls, heap, last>>

At(pc) == probe.kind = "running" /\ probe.pc = pc

\* Line 68, for station in stations: the next station, or the loop's end.
ForStation ==
  /\ At("for_station")
  /\ probe' = IF probe.st <= Len(probe.station_list)
              THEN [probe EXCEPT !.pc = "base_ph", !.tick = 0, !.readings = <<>>]
              ELSE [probe EXCEPT !.pc = "return"]
  /\ UNCHANGED <<now, rng, gens, calls, heap, last>>

\* An np.random call at the current site: the percentile drawn, and the
\* frame with the call logged.
Sample == RawDraw(rng.seed, rng.pos)

Logged(p) ==
  [p EXCEPT !.log = Append(@, [station |-> p.st, tick |-> p.tick, site |-> p.pc,
                               seed |-> rng.seed, pos |-> rng.pos])]

\* Line 94.
DrawBasePh ==
  /\ At("base_ph")
  /\ probe' = [Logged(probe) EXCEPT
                 !.base_ph = probe.station_list[probe.st].base_ph
                               + normal(0, 300, StandardNormal(Sample)),
                 !.pc = "base_temp"]
  /\ rng' = Advance(rng, 1)
  /\ UNCHANGED <<now, gens, calls, heap, last>>

\* Line 95.
DrawBaseTemp ==
  /\ At("base_temp")
  /\ probe' = [Logged(probe) EXCEPT
                 !.base_temp = probe.station_list[probe.st].base_temp
                                 + normal(0, 2000, StandardNormal(Sample)),
                 !.pc = "for_date"]
  /\ rng' = Advance(rng, 1)
  /\ UNCHANGED <<now, gens, calls, heap, last>>

\* Line 98, for date in dates: the next date, or return readings and line 73,
\* data.extend(station_data).
ForDate ==
  /\ At("for_date")
  /\ probe' = IF probe.tick < Len(probe.dates)
              THEN [probe EXCEPT !.tick = @ + 1, !.s = <<>>, !.pc = "daily_noise"]
              ELSE [probe EXCEPT !.data = @ \o probe.readings, !.st = @ + 1,
                                 !.pc = "for_station"]
  /\ UNCHANGED <<now, rng, gens, calls, heap, last>>

\* The np.random call of one site of the loop body: its sample joins s.
DrawSample(site, sample, next) ==
  /\ At(site)
  /\ probe' = [Logged(probe) EXCEPT !.s = Append(@, sample), !.pc = next]
  /\ rng' = Advance(rng, 1)
  /\ UNCHANGED <<now, gens, calls, heap, last>>

\* Line 104.
DrawDailyNoise == DrawSample("daily_noise", StandardNormal(Sample), "turbidity")
\* Line 111 (line 130).
DrawTurbidity == DrawSample("turbidity", StandardExponential(Sample), "dissolved_oxygen")
\* Line 112 (line 134).
DrawDissolvedOxygen == DrawSample("dissolved_oxygen", StandardNormal(Sample), "temperature")
\* Line 113 (line 143).
DrawTemperature == DrawSample("temperature", StandardNormal(Sample), "conductivity")
\* Line 114 (line 147).
DrawConductivity == DrawSample("conductivity", StandardNormal(Sample), "total_dissolved_solids")
\* Line 115 (line 151).
DrawTds == DrawSample("total_dissolved_solids", StandardNormal(Sample), "nitrates")
\* Line 116 (line 155).
DrawNitrates == DrawSample("nitrates", StandardNormal(Sample), "status")

\* Line 117 (line 159), then line 120, readings.append(reading).
DrawStatus ==
  /\ At("status")
  /\ probe' = [Logged(probe) EXCEPT
                 !.s = <<>>,
                 !.readings = Append(@, Reading(probe.dates[probe.tick],
                                                probe.station_list[probe.st].name,
                                                probe.station_list[probe.st].location,
                                                probe.base_ph, probe.base_temp,
                                                Append(probe.s, Sample))),
                 !.pc = "for_date"]
  /\ rng' = Advance(rng, 1)
  /\ UNCHANGED <<now, gens, calls, heap, last>>

\* Line 75.
ReturnDataFrame ==
  /\ At("return")
  /\ probe' = [kind |-> "returned", ncall |-> probe.ncall, g |-> probe.g,
               days |-> probe.days, stations |-> probe.stations,
               frequency |-> probe.frequency, start |-> probe.start,
               station_list |-> probe.station_list, dates |-> probe.dates,
               df |-> DataFrame(probe.data), log |-> probe.log]
  /\ UNCHANGED <<now, rng, gens, calls, heap, last>>

\* The caller prepares another call.
CallAgain(days, stations, frequency) ==
  /\ probe.kind = "returned"
  /\ probe.ncall < MaxCalls
  /\ probe' = [kind |-> "arguments", ncall |-> probe.ncall,
               days |-> days, stations |-> stations, frequency |-> frequency]
  /\ UNCHANGED <<now, rng, gens, calls, heap, last>>

NextDraws ==
  \/ \E seed \in Seeds : ConstructBetweenCalls(seed)
  \/ \E g \in 1..Len(gens) : BeginGenerate(g)
  \/ ForStation
  \/ DrawBasePh
  \/ DrawBaseTemp
  \/ ForDate
  \/ DrawDailyNoise
  \/ DrawTurbidity
  \/ DrawDissolvedOxygen
  \/ DrawTemperature
  \/ DrawConductivity
  \/ DrawTds
  \/ DrawNitrates
  \/ DrawStatus
  \/ ReturnDataFrame
  \/ \E a \in RepeatArgs : CallAgain(a[1], a[2], a[3])

SpecDraws == InitDraws /\ [][NextDraws]_vars

(***************************************************************************)
(* The calls made so far and what they returned.                           *)
(***************************************************************************)
CallIds == 1..Len(calls)
SeedOf(c) == gens[c.gen].seed
StationList(c) == IF c.stations.none THEN DEFAULT_STATIONS ELSE c.stations.list
Returned(c) == heap[c.out]

\* C1: determinism.  Any two generate calls with the same seed, days,
\* station list and frequency return identical datasets, two successive
\* calls on one instance included.
C1_Determinism ==
  \A i \in CallIds, j \in CallIds :
    ( /\ SeedOf(calls[i]) = SeedOf(calls[j])
      /\ calls[i].days = calls[j].days
      /\ calls[i].stations = calls[j].stations
      /\ calls[i].frequency = calls[j].frequency )
    => Returned(calls[i]) = Returned(calls[j])

\* C2: independence.  What a generate call returns is what a stream of the
\* instance's own would give: seeded with the instance's seed and advanced
\* only by the instance's own earlier calls, whatever other instances were
\* built or run in between.
C2_Independence ==
  \A i \in CallIds :
    Returned(calls[i]) =
      generate(calls[i].days, calls[i].stations, calls[i].frequency, calls[i].at,
               [seed |-> SeedOf(calls[i]), pos |-> calls[i].own]).df

(***************************************************************************)
(* Claims about one generate call, checked under SpecGenerate.             *)
(***************************************************************************)
Generated == probe.kind = "dataset"
ProbeList == IF probe.stations.none THEN DEFAULT_STATIONS ELSE probe.stations.list

\* C3: row count.  A call with d > 0 days, k > 0 stations and the hourly
\* frequency returns exactly k * (24 d + 1) rows.
C3_RowCount ==
  ( /\ Generated
    /\ probe.days > 0
    /\ ProbeList # <<>>
    /\ probe.frequency = "H" )
  => Len(probe.df.rows) = Len(ProbeList) * (24 * probe.days + 1)

\* An hourly call over the longest list and the largest day count tried.
C3_Witness ==
  /\ Generated
  /\ probe.days = MaxDays
  /\ probe.days > 0
  /\ probe.stations = List(Prefix(MaxStations))
  /\ probe.frequency = "H"
  /\ Len(probe.df.rows) >= 2 * 25

\* The block structure of a dataset over a station list, n rows per block.
BlockStructure(rows, stations) ==
  \E n \in 0..Len(rows) :
    /\ Len(rows) = Len(stations) * n
    /\ \A b \in 1..Len(stations), j \in 1..n :
         LET row == rows[(b - 1) * n + j]
         IN /\ row.station = stations[b].name
            /\ row.timestamp = rows[j].timestamp
            /\ j < n => row.timestamp < rows[(b - 1) * n + j + 1].timestamp

\* C4: dataset structure.  The rows of a returned dataset are one block of n
\* consecutive rows per station, in the order of the station list; within a
\* block the timestamps strictly ascend, and every block has the timestamps
\* of the first.
C4_Structure == Generated => BlockStructure(probe.df.rows, ProbeList)

\* A dataset over the list (B, A): B's block of 25 rows, then A's.
C4_Witness ==
  /\ Generated
  /\ Len(ProbeList) = 2
  /\ ProbeList[1].name = "Estação B"
  /\ Len(probe.df.rows) = 2 * 25
  /\ probe.df.rows[1].station = "Estação B"
  /\ probe.df.rows[25].station = "Estação B"
  /\ probe.df.rows[26].station = "Estação A"
  /\ probe.df.rows[1].timestamp < probe.df.rows[25].timestamp
  /\ probe.df.rows[26].timestamp = probe.df.rows[1].timestamp

(***************************************************************************)
(* Claims about the calls of a run, checked under Spec (continued).        *)
(***************************************************************************)
\* C6: invalid arguments.  A call with days <= 0 or with an empty station
\* list fails and returns no dataset.  (A failed call would record out = 0.)
C6_InvalidArguments ==
  \A i \in CallIds :
    (calls[i].days <= 0 \/ StationList(calls[i]) = <<>>) => calls[i].out = 0

(***************************************************************************)
(* Claims about the reading formulas, checked under SpecReading.           *)
(***************************************************************************)
\* C5: range invariants.  Whatever the samples and the station's baselines,
\* a reading has 4.0 <= ph <= 10.0 and non-negative turbidity, dissolved
\* oxygen, conductivity, total dissolved solids and nitrates.
C5_Ranges ==
  probe.kind = "reading" =>
    /\ 4000 <= probe.reading.ph
    /\ probe.reading.ph <= 10000
    /\ probe.reading.turbidity >= 0
    /\ probe.reading.dissolved_oxygen >= 0
    /\ probe.reading.conductivity >= 0
    /\ probe.reading.total_dissolved_solids >= 0
    /\ probe.reading.nitrates >= 0

\* A reading whose pH was clipped and whose other parameters were floored.
C5_Witness ==
  /\ probe.kind = "reading"
  /\ probe.reading.ph = 4000
  /\ probe.reading.dissolved_oxygen = 0
  /\ probe.reading.conductivity = 0
  /\ probe.reading.total_dissolved_solids = 0
  /\ probe.reading.nitrates = 0
  /\ probe.reading.temperature < 0

(***************************************************************************)
(* Claims about add_anomaly, checked under SpecAnomaly.                    *)
(***************************************************************************)
Called == last.df # 0
Input == heap[last.df].rows
Output == heap[last.result].rows
InWindow(row) ==
  /\ row.station = last.station
  /\ last.start_time <= row.timestamp
  /\ row.timestamp <= last.start_time + 60 * last.duration_hours

\* The result has the input's rows in the input's order, changed at most in
\* the named parameter of the rows of the station inside the window.
SameButWindow ==
  /\ last.error = ""
  /\ last.result # 0
  /\ Len(Output) = Len(Input)
  /\ \A i \in 1..Len(Input) :
       /\ \A f \in ReadingColumns \ {last.parameter} : Output[i][f] = Input[i][f]
       /\ ~InWindow(Input[i]) => Output[i] = Input[i]

\* C7: anomaly injection isolation.  For every dataset and every argument
\* the call returns the input changed only in the named parameter of the
\* station's rows inside the window; when no row matches it raises no error
\* and returns a dataset equal to the input.
C7_Isolation == Called => SameButWindow

\* The same on the datasets that have rows (and so columns).
C7_IsolationOfRows == (Called /\ heap[last.df].rows # <<>>) => SameButWindow

\* C8: add_anomaly does not mutate its input.  No step changes a dataset
\* that generate returned, whatever the sequence of add_anomaly calls on it.
C8_InputUntouched ==
  [][\A i \in 1..Len(calls) : heap'[calls[i].out] = heap[calls[i].out]]_vars

\* A call has returned a copy that differs from its input.
C8_Witness ==
  /\ Called
  /\ last.result # 0
  /\ last.result # last.df
  /\ Output # Input

\* The severity factors, in tenths.
C9_Factor10 ==
  CASE last.severity = "low" -> 13
    [] last.severity = "medium" -> 16
    [] last.severity = "high" -> 20
    [] OTHER -> 15

\* C9: anomaly injection effect.  In the returned dataset every row of the
\* station with start_time <= timestamp <= start_time + duration has the
\* named parameter equal to the input's times 1.3 (low), 1.6 (medium),
\* 2.0 (high) or 1.5 (any other severity), rounded down to the unit.
C9_Effect ==
  (Called /\ last.result # 0) =>
    \A i \in 1..Len(Input) :
      InWindow(Input[i]) =>
        /\ 10 * Output[i][last.parameter] <= C9_Factor10 * Input[i][last.parameter]
        /\ C9_Factor10 * Input[i][last.parameter] < 10 * Output[i][last.parameter] + 10

\* An unrecognised severity over a window whose two ends are both ticks: the
\* rows at both ends are scaled by 1.5.
C9_Witness ==
  /\ Called
  /\ last.result # 0
  /\ last.severity = "extreme"
  /\ last.duration_hours = 5
  /\ \E i \in 1..Len(Input), j \in 1..Len(Input) :
       /\ Input[i].station = last.station
       /\ Input[j].station = last.station
       /\ Input[i].timestamp = last.start_time
       /\ Input[j].timestamp = last.start_time + 300
       /\ Input[i][last.parameter] > 0
       /\ Output[i][last.parameter] = (3 * Input[i][last.parameter]) \div 2
       /\ Output[j][last.parameter] = (3 * Input[j][last.parameter]) \div 2
       /\ Output[j][last.parameter] # Input[j][last.parameter]

(***************************************************************************)
(* Claims about get_quality_status, checked under SpecClassify.            *)
(***************************************************************************)
\* The acceptable ranges of the six known parameters, in thousandths.
C10_Ranges ==
  [ph |-> <<6500, 8500>>, turbidity |-> <<0, 5000>>,
   dissolved_oxygen |-> <<6000, 14000>>, temperature |-> <<0, 30000>>,
   conductivity |-> <<0, 400000>>, nitrates |-> <<0, 10000>>]

\* C10: classification rules.  For a known parameter with range (min, max):
\* good exactly when min <= value <= max; otherwise critical exactly when
\* value <= 0.8 min or value >= 1.2 max; otherwise warning.  (6.5, ph) is
\* good, (5.2, ph) critical, (6.0, ph) warning.
C10_Classification ==
  ( /\ probe.kind = "status"
    /\ probe.param \in DOMAIN C10_Ranges
    /\ probe.value.cls = "finite" ) =>
    LET lo == C10_Ranges[probe.param][1]
        hi == C10_Ranges[probe.param][2]
        v == probe.value.v
        inside == lo <= v /\ v <= hi
        far == 10 * v <= 8 * lo \/ 10 * v >= 12 * hi
    IN /\ probe.status \in {"good", "warning", "critical"}
       /\ probe.status = "good" <=> inside
       /\ probe.status = "critical" <=> (~inside /\ far)
       /\ probe.status = "warning" <=>
            ((8 * lo < 10 * v /\ v < lo) \/ (hi < v /\ 10 * v < 12 * hi))
       /\ (probe.param = "ph" /\ v = 6500) => probe.status = "good"
       /\ (probe.param = "ph" /\ v = 5200) => probe.status = "critical"
       /\ (probe.param = "ph" /\ v = 6000) => probe.status = "warning"

\* pH 5.2, exactly 0.8 times the minimum, has been classified critical.
C10_Witness ==
  /\ probe.kind = "status"
  /\ probe.param = "ph"
  /\ probe.value = Float(5200)
  /\ probe.status = "critical"

\* C11: classification is total.  For every parameter string and every float
\* value, NaN and the infinities included, get_quality_status returns one of
\* good, warning, critical, unknown, and unknown exactly when the parameter
\* is not one of ph, turbidity, dissolved_oxygen, temperature, conductivity,
\* nitrates.
C11_Total ==
  probe.kind = "status" =>
    /\ probe.status \in {"good", "warning", "critical", "unknown"}
    /\ probe.status = "unknown" <=>
         probe.param \notin {"ph", "turbidity", "dissolved_oxygen", "temperature",
                             "conductivity", "nitrates"}

\* NaN has been classified for a known parameter: every comparison is False,
\* so the last branch answers.
C11_Witness ==
  /\ probe.kind = "status"
  /\ probe.value = NaN
  /\ probe.param = "dissolved_oxygen"
  /\ probe.status = "warning"

(***************************************************************************)
(* Claims about calculate_quality_index, checked under SpecIndex.          *)
(***************************************************************************)
Indexed == probe.kind = "index"
Has(k) == \E i \in 1..Len(probe.readings) : probe.readings[i][1] = k
ValueAt(k) == probe.readings[CHOOSE i \in 1..Len(probe.readings) : probe.readings[i][1] = k][2]

\* What the key k of the mapping is worth, for the weight w in thousandths:
\* w * 100 when its value classifies good, w * 50 when warning, else 0.
C12_Term(k, w) ==
  IF ~Has(k) THEN 0
  ELSE CASE get_quality_status(ValueAt(k), k) = "good" -> w * 100
         [] get_quality_status(ValueAt(k), k) = "warning" -> w * 50
         [] OTHER -> 0

\* C12: quality index composition.  The result is the sum, over the keys of
\* the mapping among ph (0.2), turbidity (0.2), dissolved_oxygen (0.3),
\* temperature (0.1) and conductivity (0.2), of weight * 100 for a good
\* value, weight * 50 for a warning and 0 for a critical one; absent keys and
\* other keys add nothing, and the empty mapping gives 0.
C12_Composition ==
  Indexed =>
    /\ probe.result = C12_Term("ph", 200) + C12_Term("turbidity", 200)
                        + C12_Term("dissolved_oxygen", 300)
                        + C12_Term("temperature", 100)
                        + C12_Term("conductivity", 200)
    /\ probe.readings = <<>> => probe.result = 0

\* A mapping without temperature, with a warning pH, a good turbidity, a
\* critical dissolved oxygen, and critical nitrates that add nothing: 10 + 20.
C12_Witness ==
  /\ Indexed
  /\ ~Has("temperature")
  /\ ~Has("conductivity")
  /\ Has("nitrates")
  /\ Has("xyz")
  /\ Has("ph")
  /\ ValueAt("ph") = Float(6000)
  /\ Has("turbidity")
  /\ ValueAt("turbidity") = Float(2000)
  /\ Has("dissolved_oxygen")
  /\ ValueAt("dissolved_oxygen") = Float(4800)
  /\ ValueAt("nitrates") = Float(50000)
  /\ probe.result = 30000

C13_AllGood ==
  \A k \in {"ph", "turbidity", "dissolved_oxygen", "temperature", "conductivity"} :
    Has(k) /\ get_quality_status(ValueAt(k), k) = "good"

\* C13: quality index bounds.  The result lies in [0, 100]; the score before
\* the clamp lies there too, so the clamp never changes it; and the result is
\* exactly 100 when the five weighted parameters are present and good.
C13_Bounds ==
  Indexed =>
    /\ 0 <= probe.result
    /\ probe.result <= 100000
    /\ 0 <= probe.score
    /\ probe.score <= 100000
    /\ probe.result = probe.score
    /\ C13_AllGood => probe.result = 100000

\* The spec's example {ph: 7.0, turbidity: 2.0, dissolved_oxygen: 8.0,
\* temperature: 22.0, conductivity: 200.0} has scored exactly 100.
C13_Witness ==
  /\ Indexed
  /\ probe.readings = <<<<"ph", Float(7000)>>, <<"turbidity", Float(2000)>>,
                        <<"dissolved_oxygen", Float(8000)>>,
                        <<"temperature", Float(22000)>>,
                        <<"conductivity", Float(200000)>>>>
  /\ probe.score = 100000
  /\ probe.result = 100000

(***************************************************************************)
(* Claims about get_quality_color, checked under SpecColor.                *)
(***************************************************************************)
C14_Statuses == {"good", "warning", "critical", "unknown"}

\* C14: color mapping.  The four statuses map to four pairwise distinct
\* colors and every other input maps to the color of unknown; the status of
\* every (value, parameter) is one of the four keys, so the default branch is
\* never taken in get_quality_color(get_quality_status(value, parameter)); and
\* that composition gives the same color whenever it is called again.
C14_Colors ==
  /\ \A a \in C14_Statuses, b \in C14_Statuses :
       a # b => get_quality_color(a) # get_quality_color(b)
  /\ probe.kind = "color" =>
       /\ probe.status \in C14_Statuses => ~probe.defaulted
       /\ probe.status \notin C14_Statuses =>
            probe.color = get_quality_color("unknown")
  /\ probe.kind = "colored" =>
       /\ probe.status \in C14_Statuses
       /\ ~probe.defaulted
       /\ probe.color \in {get_quality_color(a) : a \in C14_Statuses}
       /\ \A i \in 1..Len(probe.again) : probe.again[i].color = probe.color

\* A value of a parameter outside the table has been colored twice, at two
\* different times: unknown's gray both times, from the 'unknown' key.
C14_Witness ==
  /\ probe.kind = "colored"
  /\ probe.param = "total_dissolved_solids"
  /\ probe.status = "unknown"
  /\ probe.color = "#9e9e9e"
  /\ ~probe.defaulted
  /\ Len(probe.again) = 1
  /\ probe.again[1].at > probe.at
  /\ probe.again[1].color = "#9e9e9e"

(***************************************************************************)
(* Claims about the order of the np.random calls, checked under SpecDraws. *)
(***************************************************************************)
InCall == probe.kind \in {"running", "returned"}

\* The eight draws of a tick, in order.
C15_TickOrder ==
  <<"daily_noise", "turbidity", "dissolved_oxygen", "temperature", "conductivity",
    "total_dissolved_solids", "nitrates", "status">>

\* The i-th draw of a call over n ticks: which station makes it, at which
\* tick (0 for the two baselines) and at which site.
C15_Expected(i, n) ==
  LET o == (i - 1) % (2 + 8 * n)
  IN [station |-> ((i - 1) \div (2 + 8 * n)) + 1,
      tick |-> IF o < 2 THEN 0 ELSE ((o - 2) \div 8) + 1,
      site |-> IF o = 0 THEN "base_ph"
               ELSE IF o = 1 THEN "base_temp"
               ELSE C15_TickOrder[((o - 2) % 8) + 1]]

\* The draws of the call so far are the first draws of the expected order,
\* taken from consecutive positions of the stream the call found.
C15_Order ==
  InCall =>
    /\ \A j \in 1..(Len(probe.dates) - 1) : probe.dates[j] < probe.dates[j + 1]
    /\ \A i \in 1..Len(probe.log) :
         LET e == C15_Expected(i, Len(probe.dates))
         IN /\ probe.log[i].station = e.station
            /\ probe.log[i].tick = e.tick
            /\ probe.log[i].site = e.site
            /\ probe.log[i].seed = probe.start.seed
            /\ probe.log[i].pos = probe.start.pos + i - 1
    /\ \A i \in 1..(Len(probe.log) - 1) :
         probe.log[i].station <= probe.log[i + 1].station
    /\ probe.kind = "returned" =>
         /\ Len(probe.log) = Len(probe.station_list) * (2 + 8 * Len(probe.dates))
         /\ rng = Advance(probe.start, Len(probe.log))
         /\ Len(probe.df.rows) = Len(probe.station_list) * Len(probe.dates)

\* C15: random stream consumption order.  The stream is seeded only when an
\* instance is built, once, and a generate call never reseeds it: each of
\* its steps leaves the stream alone or takes the next sample.  Within a call
\* the draws go station by station in list order: the two baselines (pH,
\* then temperature) once, then for each tick in ascending order eight draws
\* in the order pH noise, turbidity, dissolved oxygen, temperature,
\* conductivity, total dissolved solids, nitrates, status; a call over k
\* stations and n ticks takes k * (2 + 8 n) draws and no draw of a later
\* station precedes one of an earlier station.
C15_DrawOrder ==
  /\ []C15_Order
  /\ [][IF Len(gens') > Len(gens)
        THEN rng' = [seed |-> gens'[Len(gens')].seed, pos |-> 0]
        ELSE rng' = rng \/ rng' = Advance(rng, 1)]_vars

\* A second call on an instance, over two stations and one tick, has
\* returned after 2 * (2 + 8) draws that began where the first call left the
\* stream; the eleventh draw is the second station's pH baseline.
C15_Witness ==
  /\ probe.kind = "returned"
  /\ probe.ncall = 2
  /\ Len(gens) = 1
  /\ probe.start.pos > 0
  /\ Len(probe.station_list) = 2
  /\ Len(probe.dates) = 1
  /\ Len(probe.log) = 20
  /\ probe.log[10].site = "status"
  /\ probe.log[10].station = 1
  /\ probe.log[11].site = "base_ph"
  /\ probe.log[11].station = 2
  /\ probe.log[20].pos = probe.start.pos + 19

\* The dataset and the stream of a call made draw by draw are those of
\* generate computed in one step.
DrawsAgreeWithGenerate ==
  probe.kind = "returned" =>
    \E got \in {generate(probe.days, probe.stations, probe.frequency, now, probe.start)} :
      /\ probe.df = got.df
      /\ rng = got.rng

(***************************************************************************)
(* Claims about the status label, checked under SpecStatus.                 *)
(***************************************************************************)
\* The reading the probe's station, date and baselines give on the samples s.
C16_ReadingOn(s) ==
  Reading(probe.date, probe.station_config.name, probe.station_config.location,
          probe.station_config.base_ph + normal(0, 300, probe.base[1]),
          probe.station_config.base_temp + normal(0, 2000, probe.base[2]),
          s)

\* The classification of the six classified parameters of a reading.
C16_Classes(reading) ==
  [p \in DOMAIN limits |-> get_quality_status(Float(reading[p]), p)]

\* The reading of station A at midnight with unperturbed baselines, all
\* noises z and the status percentile u.
C16_Calm(z, u) ==
  Reading(Now0 - 13 * MinutesPerHour - MinutesPerHour \div 2,
          DEFAULT_STATIONS[1].name, DEFAULT_STATIONS[1].location,
          DEFAULT_STATIONS[1].base_ph, DEFAULT_STATIONS[1].base_temp,
          <<z, 500, 0, 0, 0, 0, 0, u>>)

\* Each of the labels occurs with all parameters good and with a critical pH.
C16_CoOccur(labels) ==
  \A label \in labels :
    /\ \E u \in StatusPercentiles :
         /\ C16_Calm(0, u).status = label
         /\ \A p \in DOMAIN limits : C16_Classes(C16_Calm(0, u))[p] = "good"
    /\ \E u \in StatusPercentiles :
         /\ C16_Calm(0 - 20000, u).status = label
         /\ C16_Classes(C16_Calm(0 - 20000, u)).ph = "critical"

\* The status is chosen by the eighth sample alone: other samples for the
\* seven before it give the same status.
C16_Independent ==
  \A z \in ExtremeNormals :
    C16_ReadingOn([j \in 1..8 |-> IF j = 8 THEN probe.s[8] ELSE IF j = 2 THEN 500 ELSE z]).status
      = probe.reading.status

\* C16 as stated: the status of every reading is one of the three labels
\* Normal, Alert, Critical, chosen independently of the parameter values.
C16_StatusIndependent ==
  probe.kind = "reading" =>
    /\ probe.reading.status \in {"Normal", "Alert", "Critical"}
    /\ C16_Independent
    /\ C16_CoOccur({"Normal", "Alert", "Critical"})

\* C16 with the labels the code emits: the status of every reading is one of
\* the three labels Normal, Alerta, Crítico, chosen by its own draw; the
\* choice does not depend on the reading's parameter values, and each label
\* occurs with parameters in any classification (each with all parameters
\* good, each with a critical pH).
C16_StatusIndependentAmended ==
  probe.kind = "reading" =>
    /\ probe.reading.status \in {"Normal", "Alerta", "Crítico"}
    /\ C16_Independent
    /\ C16_CoOccur({"Normal", "Alerta", "Crítico"})

\* A reading labelled Crítico whose six classified parameters are all good.
C16_Witness ==
  /\ probe.kind = "reading"
  /\ probe.reading.status = "Crítico"
  /\ \A p \in DOMAIN limits : C16_Classes(probe.reading)[p] = "good"

\* A reading labelled Normal whose pH classifies critical.
C16_NormalWithCriticalPh ==
  /\ probe.kind = "reading"
  /\ probe.reading.status = "Normal"
  /\ C16_Classes(probe.reading).ph = "critical"

====
